---- MODULE Spec2Model ----
(***************************************************************************)
(* Model of the lav-sa-crawler appointment store (NeDB collection), the    *)
(* notification cycle checkFischerpruefung of main.js, the JSON-file store,*)
(* the JSON -> NeDB migration, the maintenance job of main.js and the      *)
(* cached API client (fetchWithRetry, fetchExamData and its cache file).   *)
(*                                                                         *)
(* A document is a TLA+ record whose DOMAIN is the set of fields the       *)
(* JavaScript object has, so "the field is absent" is a fact of the model. *)
(* A termin string "dd.mm.yyyy" is modelled by the list of its             *)
(* '.'-separated pieces (what termin.split('.') returns).                  *)
(***************************************************************************)
EXTENDS Integers, Sequences, FiniteSets, TLC

VARIABLES
    db,        \* the NeDB collection appointmentsDb: a set of documents
    idIndex,   \* TRUE once ensureIndex({fieldName:'id', unique:true}) ran
    jsonFile,  \* known-appointments.json: whether it exists, and its records
    now,       \* the wall clock read by new Date()
    last,      \* the store call made by the last step, with what it returned
    cyc,       \* per run of checkFischerpruefung: position and locals
    runs,      \* number of runs of checkFischerpruefung started so far
    announced, \* ids the new-appointment notifications sent so far contained
    api,       \* the cached API client: its configuration and its call in progress
    cache      \* the cache file of the API client

vars == <<db, idIndex, jsonFile, now, last, cyc, runs, announced, api, cache>>

(***************************************************************************)
(* Bounds of the model.                                                    *)
(***************************************************************************)
MaxBatch == 2     \* longest list handed to a store call / returned by the API
MaxTime == 1      \* the clock stops ticking here
MaxCycles == 2    \* runs of checkFischerpruefung per behaviour

Ids == {1, 2, 3}      \* appointment ids the upstream registry hands out
Uids == {1, 2, 3}     \* pool of NeDB _id values (random strings in NeDB)
Procs == {1, 2}       \* the run started at "init" and the scheduled run

EXAM_TYPE_ID == 1

(***************************************************************************)
(* Sequence helpers.                                                       *)
(***************************************************************************)
SeqsUpTo(S, n) == UNION {[1..k -> S] : k \in 0..n}

Range(s) == {s[i] : i \in DOMAIN s}

RECURSIVE SelectSeqBy(_, _)
\* Array.prototype.filter with the test "keep[i]"
SelectSeqBy(s, keep) ==
    IF s = <<>> THEN <<>>
    ELSE (IF keep[1] THEN <<Head(s)>> ELSE <<>>)
         \o SelectSeqBy(Tail(s), [i \in 1..(Len(s) - 1) |-> keep[i + 1]])

Reverse(s) == [i \in 1..Len(s) |-> s[Len(s) + 1 - i]]

Min(a, b) == IF a < b THEN a ELSE b

Has(r, f) == f \in DOMAIN r

(***************************************************************************)
(* Dates.  new Date(`${year}-${month}-${day}`) of getMostRecentAppointments*)
(***************************************************************************)
Numbers == (1..31) \cup (2022..2023)

Pad2(n) == IF n < 10 THEN "0" \o ToString(n) ELSE ToString(n)

IsNumeral(s) == \E n \in Numbers : s \in {ToString(n), Pad2(n)}

NumeralValue(s) == CHOOSE n \in Numbers : s \in {ToString(n), Pad2(n)}

InvalidDate == [valid |-> FALSE]

\* a date parser that orders dates as the strings "ddmmyyyy" order
ParseDateMutantLexical(pieces) ==
    IF Len(pieces) >= 3 /\ \A i \in 1..3 : IsNumeral(pieces[i])
    THEN [valid |-> TRUE,
          time |-> NumeralValue(pieces[1]) * 1000000
                   + NumeralValue(pieces[2]) * 10000 + NumeralValue(pieces[3])]
    ELSE InvalidDate

\* new Date("y-m-d"): a time value for numerals that name a calendar day,
\* Invalid Date (NaN) for anything else, an undefined piece included.
ParseDate(pieces) ==
    IF /\ Len(pieces) >= 3
       /\ \A i \in 1..3 : IsNumeral(pieces[i])
       /\ NumeralValue(pieces[1]) \in 1..31
       /\ NumeralValue(pieces[2]) \in 1..12
    THEN [valid |-> TRUE,
          time |-> NumeralValue(pieces[3]) * 372
                   + NumeralValue(pieces[2]) * 31 + NumeralValue(pieces[1])]
    ELSE InvalidDate

\* The comparator of allAppointments.sort: dateB - dateA, NaN when either
\* date is invalid.  (It throws a TypeError when a termin is not a string:
\* see SortThrows.)
CompareFn(a, b) ==
    LET dateA == ParseDate(a.termin)
        dateB == ParseDate(b.termin)
    IN  IF dateA.valid /\ dateB.valid
        THEN [nan |-> FALSE, v |-> dateB.time - dateA.time]
        ELSE [nan |-> TRUE]

\* Array.prototype.sort reads a NaN comparator result as +0.
Order(a, b) == LET c == CompareFn(a, b) IN IF c.nan THEN 0 ELSE c.v

(***************************************************************************)
(* Array.prototype.sort as Node's V8 runs it on arrays shorter than 64     *)
(* elements: the leading run is found (and reversed when strictly          *)
(* descending), the rest is placed by binary insertion.                    *)
(***************************************************************************)
RECURSIVE RunLength(_, _, _)
RunLength(s, idx, desc) ==
    IF idx > Len(s) THEN Len(s)
    ELSE LET o == Order(s[idx], s[idx - 1])
         IN  IF (desc /\ o >= 0) \/ (~desc /\ o < 0)
             THEN idx - 1
             ELSE RunLength(s, idx + 1, desc)

CountAndMakeRun(s) ==
    LET desc == Order(s[2], s[1]) < 0
        n == RunLength(s, 3, desc)
    IN  [arr |-> IF desc
                 THEN Reverse(SubSeq(s, 1, n)) \o SubSeq(s, n + 1, Len(s))
                 ELSE s,
         run |-> n]

RECURSIVE BinarySearch(_, _, _, _)
\* left and right count the elements before the position, as in V8
BinarySearch(s, pivot, left, right) ==
    IF left >= right THEN left
    ELSE LET mid == left + ((right - left) \div 2)
         IN  IF Order(pivot, s[mid + 1]) < 0
             THEN BinarySearch(s, pivot, left, mid)
             ELSE BinarySearch(s, pivot, mid + 1, right)

RECURSIVE BinaryInsertionSort(_, _)
BinaryInsertionSort(s, start) ==
    IF start >= Len(s) THEN s
    ELSE LET pivot == s[start + 1]
             pos == BinarySearch(s, pivot, 0, start)
         IN  BinaryInsertionSort(
                 SubSeq(s, 1, pos) \o <<pivot>> \o SubSeq(s, pos + 1, start)
                     \o SubSeq(s, start + 2, Len(s)),
                 start + 1)

ArraySort(s) ==
    IF Len(s) < 2 THEN s
    ELSE LET r == CountAndMakeRun(s) IN BinaryInsertionSort(r.arr, r.run)

\* the comparator is called for every element once the array has two
SortThrows(s) == Len(s) >= 2 /\ \E i \in DOMAIN s : ~Has(s[i], "termin")

(***************************************************************************)
(* NeDB: find and update of the collection appointmentsDb.  NeDB runs each *)
(* call to completion before the next one, so each is one atomic step.     *)
(***************************************************************************)
RECURSIVE ByUid(_)
\* find hands the matching documents back in the order of the _id index
ByUid(D) ==
    IF D = {} THEN <<>>
    ELSE LET d == CHOOSE x \in D : \A y \in D : x._id <= y._id
         IN  <<d>> \o ByUid(D \ {d})

FindAll(D) == ByUid(D)

FindIdIn(D, ids) == ByUid({d \in D : d.id \in ids})

\* a query that takes every document which has the field
FindNotifiedMutantHasField(D) == ByUid({d \in D : Has(d, "notified")})

FindNotified(D) == ByUid({d \in D : Has(d, "notified") /\ d.notified = TRUE})

\* The _id a new document gets.  NeDB draws a random string; the model takes
\* the smallest value not in use.  What the program can observe of an _id is
\* that it is fresh and that the order of the _id index is unrelated to the
\* content; every such order arises here from some order of insertion.
FreshUid(D) == CHOOSE u \in Uids : /\ \A d \in D : d._id # u
                                  /\ \A v \in Uids : v < u => \E d \in D : d._id = v

\* an upsert that inserts whether or not the query matches
UpdateUpsertMutantInsert(D, doc) ==
    [db |-> D \cup {("_id" :> FreshUid(D)) @@ doc}, n |-> 1]

\* an upsert that keeps the fields of the old document the new one lacks
UpdateUpsertMutantMerge(D, doc) ==
    LET m == FindIdIn(D, {doc.id})
    IN  IF m # <<>>
        THEN [db |-> (D \ {m[1]}) \cup {doc @@ m[1]}, n |-> 1]
        ELSE [db |-> D \cup {("_id" :> FreshUid(D)) @@ doc}, n |-> 1]

\* update(query {id}, doc, {upsert: true}): the first match is replaced by
\* doc as a whole (its _id kept); with no match doc is inserted.
UpdateUpsert(D, doc) ==
    LET m == FindIdIn(D, {doc.id})
    IN  IF m # <<>>
        THEN [db |-> (D \ {m[1]}) \cup {("_id" :> m[1]._id) @@ doc}, n |-> 1]
        ELSE [db |-> D \cup {("_id" :> FreshUid(D)) @@ doc}, n |-> 1]

\* update(query {id}, {$set: fields}): the first match gets the fields set;
\* the number of documents changed is handed back.
UpdateSet(D, id, fields) ==
    LET m == FindIdIn(D, {id})
    IN  IF m = <<>>
        THEN [db |-> D, n |-> 0]
        ELSE [db |-> (D \ {m[1]}) \cup {fields @@ m[1]}, n |-> 1]

(***************************************************************************)
(* modules/data/nedbAppointmentStorage.js.  An argument is                 *)
(* [isArray |-> TRUE, items |-> <<...>>] or [isArray |-> FALSE].           *)
(***************************************************************************)
ArrayOf(items) == [isArray |-> TRUE, items |-> items]

NotAnArray == [isArray |-> FALSE]

RECURSIVE SaveLoop(_, _, _)
\* the for loop of saveAppointments; the write of record number failAt
\* (0: none) is rejected by the storage, which leaves the loop by the catch
SaveLoop(D, items, failAt) ==
    IF items = <<>> THEN [db |-> D, ret |-> TRUE]
    ELSE IF failAt = 1 THEN [db |-> D, ret |-> FALSE]
    ELSE SaveLoop(UpdateUpsert(D, Head(items)).db, Tail(items),
                  IF failAt = 0 THEN 0 ELSE failAt - 1)

\* a saveAppointments whose guard lets the empty array through
SaveAppointmentsMutantNoEmptyGuard(D, arg, failAt) ==
    IF ~arg.isArray
    THEN [db |-> D, ret |-> FALSE]
    ELSE SaveLoop(D, arg.items, failAt)

SaveAppointments(D, arg, failAt) ==
    IF ~arg.isArray \/ Len(arg.items) = 0
    THEN [db |-> D, ret |-> FALSE]
    ELSE SaveLoop(D, arg.items, failAt)

Stamp(appointment, t) == [notified |-> FALSE, dateAdded |-> t] @@ appointment

\* a difference that takes a candidate for known only if its termin is
\* the stored one too
FindNewAppointmentsMutantFields(D, arg, t) ==
    IF ~arg.isArray \/ Len(arg.items) = 0 THEN <<>>
    ELSE LET kept == SelectSeqBy(arg.items,
                 [i \in DOMAIN arg.items |->
                     \A d \in D : d.id # arg.items[i].id
                                  \/ d.termin # arg.items[i].termin])
         IN  [i \in DOMAIN kept |-> Stamp(kept[i], t)]

FindNewAppointments(D, arg, t) ==
    IF ~arg.isArray \/ Len(arg.items) = 0 THEN <<>>
    ELSE LET fetchedIds == {arg.items[i].id : i \in DOMAIN arg.items}
             existingAppointments == FindIdIn(D, fetchedIds)
             existingIds == {existingAppointments[i].id :
                                i \in DOMAIN existingAppointments}
             kept == SelectSeqBy(arg.items,
                         [i \in DOMAIN arg.items |->
                             arg.items[i].id \notin existingIds])
         IN  [i \in DOMAIN kept |-> Stamp(kept[i], t)]

\* a markAsNotified that reports success although nothing matched
MarkAsNotifiedMutantAlwaysTrue(D, appointmentId, t, ok) ==
    IF ~ok THEN [db |-> D, ret |-> FALSE]
    ELSE [db |-> UpdateSet(D, appointmentId,
                     [notified |-> TRUE, notifiedAt |-> t]).db,
          ret |-> TRUE]

\* ok = FALSE: the storage rejects the write (updateAsync rejects)
MarkAsNotified(D, appointmentId, t, ok) ==
    IF ~ok THEN [db |-> D, ret |-> FALSE]
    ELSE LET r == UpdateSet(D, appointmentId,
                      [notified |-> TRUE, notifiedAt |-> t])
         IN  [db |-> r.db, ret |-> r.n # 0]

GetNotifiedAppointments(D) == FindNotified(D)

LoadKnownAppointments(D) == FindAll(D)

GetMostRecentAppointments(D, limit) ==
    LET allAppointments == FindAll(D)
    IN  IF SortThrows(allAppointments) THEN <<>>
        ELSE SubSeq(ArraySort(allAppointments), 1,
                    Min(limit, Len(allAppointments)))

(***************************************************************************)
(* Inputs.                                                                 *)
(***************************************************************************)
Termin(d, m, y) == <<Pad2(d), Pad2(m), ToString(y)>>

\* candidates as main.js maps them from the raw items (no notified field),
\* and one record that carries notified = true (a record read back from a
\* store and handed in again)
Candidates ==
    { [id |-> 1, termin |-> Termin(3, 3, 2022), pruefungsstelle |-> "B"],
      [id |-> 2, termin |-> Termin(15, 6, 2023), pruefungsstelle |-> "A"],
      [id |-> 3, termin |-> Termin(3, 3, 2022), pruefungsstelle |-> "A",
       notified |-> TRUE] }

\* records handed to saveAppointments: results of findNewAppointments and a
\* record written by hand as the test suite does (same id, other values, no
\* dateAdded)
SaveRecs ==
    { Stamp([id |-> 1, termin |-> Termin(1, 1, 2023), pruefungsstelle |-> "A"], 0),
      [id |-> 1, termin |-> Termin(3, 3, 2022), pruefungsstelle |-> "B",
       notified |-> FALSE],
      Stamp([id |-> 2, termin |-> Termin(15, 6, 2023), pruefungsstelle |-> "A"], 0) }

\* records for the recency selector: three exam dates, a termin that is no
\* date (what the run stores for an item without a usable date), a record
\* without termin
RecentRecs ==
    { [id |-> 1, termin |-> Termin(1, 1, 2023), notified |-> FALSE],
      [id |-> 1, termin |-> <<"Invalid Date">>, notified |-> FALSE],
      [id |-> 2, termin |-> Termin(15, 6, 2023), notified |-> FALSE],
      [id |-> 2, termin |-> Termin(1, 1, 2023), notified |-> FALSE],
      [id |-> 3, termin |-> Termin(3, 3, 2022), notified |-> FALSE],
      [id |-> 3, notified |-> FALSE] }

FindArgs == {NotAnArray} \cup {ArrayOf(b) : b \in SeqsUpTo(Candidates, MaxBatch)}

SaveArgs == {NotAnArray} \cup {ArrayOf(b) : b \in SeqsUpTo(SaveRecs, MaxBatch)}

Limits == 0..(MaxBatch + 2)

Idle == [pc |-> "idle"]

NoFile == [exists |-> FALSE]

\* the module of the API client is not loaded; no cache file was written
NotLoaded == [pc |-> "unloaded"]

NoCache == [exists |-> FALSE]

FileOf(records) == [exists |-> TRUE, records |-> records]

Init ==
    /\ db = {}
    /\ idIndex = FALSE
    /\ jsonFile = NoFile
    /\ now = 0
    /\ last = [op |-> "none"]
    /\ cyc = [p \in Procs |-> Idle]
    /\ runs = 0
    /\ announced = {}
    /\ api = NotLoaded
    /\ cache = NoCache

\* time passes
Tick ==
    /\ now < MaxTime
    /\ now' = now + 1
    /\ last' = [op |-> "tick"]
    /\ UNCHANGED <<db, idIndex, jsonFile, cyc, runs, announced, api, cache>>

(***************************************************************************)
(* The store's operations, each called on its own.  Every step leaves in   *)
(* "last" the call it made and what it returned; a write also leaves the   *)
(* collection it found (pre).                                              *)
(***************************************************************************)
ApiLoad ==
    /\ last' = [op |-> "loadKnownAppointments", ret |-> LoadKnownAppointments(db)]
    /\ UNCHANGED <<db, idIndex, jsonFile, now, cyc, runs, announced, api, cache>>

ApiSave ==
    \E arg \in SaveArgs, failAt \in 0..MaxBatch :
        LET r == SaveAppointments(db, arg, failAt)
        IN  /\ arg.isArray => failAt <= Len(arg.items)
            /\ ~arg.isArray => failAt = 0
            /\ db' = r.db
            /\ last' = [op |-> "saveAppointments", arg |-> arg,
                        failAt |-> failAt, ret |-> r.ret, pre |-> db]
            /\ UNCHANGED <<idIndex, jsonFile, now, cyc, runs, announced, api, cache>>

ApiFindNew ==
    \E arg \in FindArgs :
        /\ last' = [op |-> "findNewAppointments", arg |-> arg,
                    ret |-> FindNewAppointments(db, arg, now)]
        /\ UNCHANGED <<db, idIndex, jsonFile, now, cyc, runs, announced, api, cache>>

ApiMark ==
    \E id \in Ids, ok \in BOOLEAN :
        LET r == MarkAsNotified(db, id, now, ok)
        IN  /\ db' = r.db
            /\ last' = [op |-> "markAsNotified", arg |-> id, ok |-> ok,
                        ret |-> r.ret, pre |-> db]
            /\ UNCHANGED <<idIndex, jsonFile, now, cyc, runs, announced, api, cache>>

ApiGetNotified ==
    /\ last' = [op |-> "getNotifiedAppointments",
                ret |-> GetNotifiedAppointments(db)]
    /\ UNCHANGED <<db, idIndex, jsonFile, now, cyc, runs, announced, api, cache>>

NextStore ==
    \/ Tick
    \/ ApiLoad
    \/ ApiSave
    \/ ApiFindNew
    \/ ApiMark
    \/ ApiGetNotified

SpecStore == Init /\ [][NextStore]_vars

(***************************************************************************)
(* The recency selector on stores built record by record.                  *)
(***************************************************************************)
ApiSaveOne ==
    \E r \in RecentRecs :
        LET res == SaveAppointments(db, ArrayOf(<<r>>), 0)
        IN  /\ db' = res.db
            /\ last' = [op |-> "saveAppointments", arg |-> ArrayOf(<<r>>),
                        failAt |-> 0, ret |-> res.ret, pre |-> db]
            /\ UNCHANGED <<idIndex, jsonFile, now, cyc, runs, announced, api, cache>>

ApiMostRecent ==
    \E limit \in Limits :
        /\ last' = [op |-> "getMostRecentAppointments", arg |-> limit,
                    ret |-> GetMostRecentAppointments(db, limit)]
        /\ UNCHANGED <<db, idIndex, jsonFile, now, cyc, runs, announced, api, cache>>

NextRecent ==
    \/ ApiSaveOne
    \/ ApiMostRecent

SpecRecent == Init /\ [][NextRecent]_vars

(***************************************************************************)
(* main.js: checkFischerpruefung.  Two runs may be under way at once (the  *)
(* run started at load time and the scheduled one); they interleave at the *)
(* awaits, so every awaited store call is one step.                        *)
(***************************************************************************)
RawDate(d, m, y) == [valid |-> TRUE, d |-> d, m |-> m, y |-> y]

\* raw exam items of the API: id, date, examType.id, examinationOffice.name
\* (contactInfo and the url built from LINK_URL and the id travel with the
\* office name and are left out); the last item has no examType
RawItems ==
    { [id |-> 1, date |-> RawDate(1, 1, 2023), examTypeId |-> 1, office |-> "A"],
      [id |-> 1, date |-> RawDate(3, 3, 2022), examTypeId |-> 1, office |-> "B"],
      [id |-> 2, date |-> [valid |-> FALSE], examTypeId |-> 1, office |-> "A"],
      [id |-> 3, date |-> RawDate(3, 3, 2022), examTypeId |-> 2, office |-> "A"],
      [id |-> 3, date |-> RawDate(3, 3, 2022), office |-> "A"] }

\* what fetchExamData resolves to: null, or the data array
NoData == [data |-> FALSE]

RawResults == {NoData} \cup {[data |-> TRUE, items |-> r] :
                                 r \in SeqsUpTo(RawItems, MaxBatch)}

\* new Date(item.date).toLocaleDateString('de-DE'): "d.m.yyyy", not padded
ToLocaleDateString(date) ==
    IF date.valid
    THEN <<ToString(date.d), ToString(date.m), ToString(date.y)>>
    ELSE <<"Invalid Date">>

\* item.examType.id of an item without examType throws a TypeError
FilterThrows(raw) == \E i \in DOMAIN raw : ~Has(raw[i], "examTypeId")

FetchedAppointments(raw) ==
    LET mine == SelectSeqBy(raw, [i \in DOMAIN raw |->
                                     raw[i].examTypeId = EXAM_TYPE_ID])
    IN  [i \in DOMAIN mine |->
            [id |-> mine[i].id,
             termin |-> ToLocaleDateString(mine[i].date),
             pruefungsstelle |-> mine[i].office]]

Called(p, call) == Append(cyc[p].calls, call)

\* initializeAppointmentsCollection and loadKnownAppointments (whose result
\* the run does not use).  The clock has moved on since the run before was
\* started; within the runs it is read, never compared.  "last" keeps which
\* run was started last and the collection it found.
Begin(p) ==
    /\ cyc[p].pc = "idle"
    /\ runs < MaxCycles
    /\ runs' = runs + 1
    /\ now' = IF runs > 0 /\ now < MaxTime THEN now + 1 ELSE now
    /\ idIndex' = TRUE
    /\ cyc' = [cyc EXCEPT ![p] = [pc |-> "fetch", new |-> <<>>, fetched |-> <<>>,
                                  k |-> 1, calls |-> <<>>, err |-> FALSE]]
    /\ last' = [op |-> "checkFischerpruefung", p |-> p, pre |-> db]
    /\ UNCHANGED <<db, jsonFile, announced, api, cache>>

\* a run that reports the missing data as an error before it returns
FetchMutantAlert(p) ==
    /\ cyc[p].pc = "fetch"
    /\ cyc' = [cyc EXCEPT ![p] =
                  [@ EXCEPT !.pc = "nodata",
                            !.calls = Called(p, [op |-> "sendDiscordAlert",
                                                  ids |-> <<>>, error |-> TRUE])]]
    /\ UNCHANGED <<db, idIndex, jsonFile, now, last, runs, announced, api, cache>>

\* fetchExamData, the early return on no data, the filter and the map
Fetch(p) ==
    /\ cyc[p].pc = "fetch"
    /\ \E raw \in RawResults :
           cyc' = [cyc EXCEPT ![p] =
                      IF ~raw.data THEN [@ EXCEPT !.pc = "nodata"]
                      ELSE IF FilterThrows(raw.items) THEN [@ EXCEPT !.pc = "error"]
                      ELSE [@ EXCEPT !.pc = "find",
                                     !.fetched = FetchedAppointments(raw.items)]]
    /\ UNCHANGED <<db, idIndex, jsonFile, now, last, runs, announced, api, cache>>

\* a run that takes every fetched appointment for new
FindNewMutantAll(p) ==
    /\ cyc[p].pc = "find"
    /\ LET new == [i \in DOMAIN cyc[p].fetched |-> Stamp(cyc[p].fetched[i], now)]
       IN  cyc' = [cyc EXCEPT ![p] =
                      [@ EXCEPT !.pc = IF Len(new) > 0 THEN "mark" ELSE "recent",
                                !.new = new,
                                !.fetched = <<>>,
                                !.calls = Called(p, [op |-> "findNewAppointments",
                                                      n |-> Len(cyc[p].fetched)])]]
    /\ UNCHANGED <<db, idIndex, jsonFile, now, last, runs, announced, api, cache>>

\* a run that judges the fetched ids by the collection found when the run
\* last started was started, not by the collection as it is now
FindNewMutantStale(p) ==
    /\ cyc[p].pc = "find"
    /\ LET new == FindNewAppointments(last.pre, ArrayOf(cyc[p].fetched), now)
       IN  cyc' = [cyc EXCEPT ![p] =
                      [@ EXCEPT !.pc = IF Len(new) > 0 THEN "mark" ELSE "recent",
                                !.new = new,
                                !.fetched = <<>>,
                                !.calls = Called(p, [op |-> "findNewAppointments",
                                                      n |-> Len(cyc[p].fetched)])]]
    /\ UNCHANGED <<db, idIndex, jsonFile, now, last, runs, announced, api, cache>>

\* findNewAppointments and getNotifiedAppointments
FindNew(p) ==
    /\ cyc[p].pc = "find"
    /\ LET new == FindNewAppointments(db, ArrayOf(cyc[p].fetched), now)
       IN  cyc' = [cyc EXCEPT ![p] =
                      [@ EXCEPT !.pc = IF Len(new) > 0 THEN "mark" ELSE "recent",
                                !.new = new,
                                !.fetched = <<>>,
                                !.calls = Called(p, [op |-> "findNewAppointments",
                                                      n |-> Len(cyc[p].fetched)])]]
    /\ UNCHANGED <<db, idIndex, jsonFile, now, last, runs, announced, api, cache>>

\* a loop that gives the run up when markAsNotified returns false
MarkStepMutantAbort(p) ==
    /\ cyc[p].pc = "mark"
    /\ \E ok \in BOOLEAN :
           LET id == cyc[p].new[cyc[p].k].id
               r == MarkAsNotified(db, id, now, ok)
           IN  /\ db' = r.db
               /\ cyc' = [cyc EXCEPT ![p] =
                             [@ EXCEPT !.pc = IF ~r.ret THEN "done"
                                              ELSE IF cyc[p].k = Len(cyc[p].new)
                                              THEN "send" ELSE "mark",
                                       !.k = IF @ = Len(cyc[p].new) THEN 1 ELSE @ + 1,
                                       !.err = @ \/ ~ok,
                                       !.calls = Called(p, [op |-> "markAsNotified",
                                                            id |-> id])]]
    /\ UNCHANGED <<idIndex, jsonFile, now, last, runs, announced, api, cache>>

\* one round of the loop "for (const newAppointment of newAppointments)"
MarkStep(p) ==
    /\ cyc[p].pc = "mark"
    /\ \E ok \in BOOLEAN :
           LET id == cyc[p].new[cyc[p].k].id
               r == MarkAsNotified(db, id, now, ok)
           IN  /\ db' = r.db
               /\ cyc' = [cyc EXCEPT ![p] =
                             [@ EXCEPT !.pc = IF cyc[p].k = Len(cyc[p].new)
                                              THEN "send" ELSE "mark",
                                       !.k = IF @ = Len(cyc[p].new) THEN 1 ELSE @ + 1,
                                       !.err = @ \/ ~ok,
                                       !.calls = Called(p, [op |-> "markAsNotified",
                                                            id |-> id])]]
    /\ UNCHANGED <<idIndex, jsonFile, now, last, runs, announced, api, cache>>

\* a status branch that marks the records it shows
RecentMutantMarks(p) ==
    /\ cyc[p].pc = "recent"
    /\ db' = {[notified |-> TRUE] @@ d : d \in db}
    /\ cyc' = [cyc EXCEPT ![p] =
                  [@ EXCEPT !.pc = "send",
                            !.calls = Called(p, [op |-> "getMostRecentAppointments",
                                                  n |-> Len(GetMostRecentAppointments(db, 2))])]]
    /\ UNCHANGED <<idIndex, jsonFile, now, last, runs, announced, api, cache>>

\* the branch without new appointments: getMostRecentAppointments(2)
Recent(p) ==
    /\ cyc[p].pc = "recent"
    /\ cyc' = [cyc EXCEPT ![p] =
                  [@ EXCEPT !.pc = "send",
                            !.calls = Called(p, [op |-> "getMostRecentAppointments",
                                                  n |-> Len(GetMostRecentAppointments(db, 2))])]]
    /\ UNCHANGED <<db, idIndex, jsonFile, now, last, runs, announced, api, cache>>

\* sendDiscordAlert(discordContent, discordEmbeds): it returns whether the
\* webhook took the message and never throws; main.js does not read what
\* it returns.  The ids of the message go to the history "announced".
Send(p) ==
    /\ cyc[p].pc = "send"
    /\ \E delivered \in BOOLEAN :
           cyc' = [cyc EXCEPT ![p] =
                      [@ EXCEPT !.pc = IF Len(cyc[p].new) > 0 THEN "save" ELSE "done",
                                !.calls = Called(p, [op |-> "sendDiscordAlert",
                                                      ids |-> [i \in DOMAIN cyc[p].new |->
                                                                  cyc[p].new[i].id]])]]
    /\ announced' = announced \cup {cyc[p].new[i].id : i \in DOMAIN cyc[p].new}
    /\ UNCHANGED <<db, idIndex, jsonFile, now, last, runs, api, cache>>

\* one round of the loop of saveAppointments(newAppointments); a rejected
\* write ends the call (it returns false)
SaveStep(p) ==
    /\ cyc[p].pc = "save"
    /\ \E ok \in BOOLEAN :
           LET rec == cyc[p].new[cyc[p].k]
               calls == IF cyc[p].k = 1
                        THEN Called(p, [op |-> "saveAppointments"])
                        ELSE cyc[p].calls
           IN  /\ db' = IF ok THEN UpdateUpsert(db, rec).db ELSE db
               /\ cyc' = [cyc EXCEPT ![p] =
                             [@ EXCEPT !.pc = IF ~ok \/ cyc[p].k = Len(cyc[p].new)
                                              THEN "done" ELSE "save",
                                       !.k = @ + 1,
                                       !.err = @ \/ ~ok,
                                       !.calls = calls]]
    /\ UNCHANGED <<idIndex, jsonFile, now, last, runs, announced, api, cache>>

\* a catch block that reports nothing
ReportErrorMutantSilent(p) ==
    /\ cyc[p].pc = "error"
    /\ cyc' = [cyc EXCEPT ![p] = [@ EXCEPT !.pc = "done"]]
    /\ UNCHANGED <<db, idIndex, jsonFile, now, last, runs, announced, api, cache>>

\* the catch block: the error is reported by sendDiscordAlert
ReportError(p) ==
    /\ cyc[p].pc = "error"
    /\ \E delivered \in BOOLEAN :
           cyc' = [cyc EXCEPT ![p] =
                      [@ EXCEPT !.pc = "done",
                                !.calls = Called(p, [op |-> "sendDiscordAlert",
                                                      ids |-> <<>>, error |-> TRUE])]]
    /\ UNCHANGED <<db, idIndex, jsonFile, now, last, runs, announced, api, cache>>

\* the run has returned, at the end of its body or early for want of data
Finish(p) ==
    /\ cyc[p].pc \in {"done", "nodata"}
    /\ cyc' = [cyc EXCEPT ![p] = Idle]
    /\ UNCHANGED <<db, idIndex, jsonFile, now, last, runs, announced, api, cache>>

Next ==
    \/ \E p \in Procs :
           \/ Begin(p)
           \/ Fetch(p)
           \/ FindNew(p)
           \/ MarkStep(p)
           \/ Recent(p)
           \/ Send(p)
           \/ SaveStep(p)
           \/ ReportError(p)
           \/ Finish(p)

Spec == Init /\ [][Next]_vars

\* the run started at load time and one scheduled run, each up to its end,
\* on a store that answers every call
NextOverlap ==
    \E p \in Procs :
        /\ \/ Begin(p)
           \/ Fetch(p)
           \/ FindNew(p)
           \/ MarkStep(p)
           \/ Recent(p)
           \/ Send(p)
           \/ SaveStep(p)
           \/ ReportError(p)
        /\ ~cyc'[p].err

SpecOverlap == Init /\ [][NextOverlap]_vars

\* one run at a time: the runs of the daily schedule
NextRun ==
    \/ Begin(1)
    \/ Fetch(1)
    \/ FindNew(1)
    \/ MarkStep(1)
    \/ Recent(1)
    \/ Send(1)
    \/ SaveStep(1)
    \/ ReportError(1)
    \/ Finish(1)

SpecRun == Init /\ [][NextRun]_vars

\* the write of this round of saveAppointments was accepted
SaveAccepted(p) ==
    /\ db' = UpdateUpsert(db, cyc[p].new[cyc[p].k]).db
    /\ cyc'[p].err = cyc[p].err
    /\ cyc[p].k < Len(cyc[p].new) => cyc'[p].pc = "save"

\* one run at a time, and every saveAppointments call succeeds
NextSeq ==
    \/ Begin(1)
    \/ Fetch(1)
    \/ FindNew(1)
    \/ MarkStep(1)
    \/ Recent(1)
    \/ Send(1)
    \/ SaveStep(1) /\ SaveAccepted(1)
    \/ ReportError(1)
    \/ Finish(1)

SpecSeq == Init /\ [][NextSeq]_vars

(***************************************************************************)
(* saveAppointments called by two callers at once: the calls interleave at *)
(* the await of each write.                                                *)
(***************************************************************************)
\* the call up to its first write; not an array or empty: it returns false
SaveCall(p) ==
    /\ cyc[p].pc = "idle"
    /\ \E arg \in SaveArgs :
           cyc' = [cyc EXCEPT ![p] =
                      [pc |-> IF arg.isArray /\ Len(arg.items) > 0
                              THEN "save" ELSE "done",
                       new |-> IF arg.isArray THEN arg.items ELSE <<>>,
                       fetched |-> <<>>, k |-> 1, calls |-> <<>>, err |-> FALSE]]
    /\ UNCHANGED <<db, idIndex, jsonFile, now, last, runs, announced, api, cache>>

NextSaves ==
    \E p \in Procs :
        \/ SaveCall(p)
        \/ SaveStep(p)
        \/ Finish(p)

SpecSaves == Init /\ [][NextSaves]_vars

(***************************************************************************)
(* The JSON-file store (modules/data/appointmentStorage.js) and            *)
(* migrate-to-nedb.js.                                                     *)
(***************************************************************************)
\* records of the JSON era: no dateAdded, no notifiedAt
JsonRecs ==
    { [id |-> 1, termin |-> Termin(1, 1, 2023), pruefungsstelle |-> "A",
       notified |-> FALSE],
      [id |-> 2, termin |-> Termin(15, 6, 2023), pruefungsstelle |-> "A",
       notified |-> FALSE] }

JsonArgs == {NotAnArray} \cup {ArrayOf(b) : b \in SeqsUpTo(JsonRecs, MaxBatch)}

\* loadKnownAppointments: the parsed file; [] when the file is missing and
\* when reading or parsing it fails (readOk = FALSE).  The records hold
\* numbers, strings and booleans only, which JSON.stringify and JSON.parse
\* hand back as they were.
JsonLoadKnownAppointments(file, readOk) ==
    IF file.exists /\ readOk THEN file.records ELSE <<>>

JsonSaveKnownAppointments(file, arg, readOk) ==
    IF ~arg.isArray THEN [file |-> file, ret |-> FALSE]
    ELSE LET existing == JsonLoadKnownAppointments(file, readOk)
             kept == SelectSeqBy(existing,
                         [i \in DOMAIN existing |->
                             \A j \in DOMAIN arg.items :
                                 arg.items[j].id # existing[i].id])
         IN  [file |-> FileOf(kept \o arg.items), ret |-> TRUE]

\* markAsNotified(appointmentId, knownAppointments): the list handed in is
\* not read; the file is loaded here and once more by saveKnownAppointments
JsonMarkAsNotified(file, appointmentId, readOk, readOk2) ==
    LET allAppointments == JsonLoadKnownAppointments(file, readOk)
        updated == [i \in DOMAIN allAppointments |->
                       IF allAppointments[i].id = appointmentId
                       THEN [notified |-> TRUE] @@ allAppointments[i]
                       ELSE allAppointments[i]]
    IN  JsonSaveKnownAppointments(file, ArrayOf(updated), readOk2)

\* markAsNotified of the earlier revision: the list handed in is mapped and
\* saved
JsonMarkAsNotifiedFromList(file, appointmentId, knownAppointments, readOk) ==
    LET updated == [i \in DOMAIN knownAppointments |->
                       IF knownAppointments[i].id = appointmentId
                       THEN [notified |-> TRUE] @@ knownAppointments[i]
                       ELSE knownAppointments[i]]
    IN  JsonSaveKnownAppointments(file, ArrayOf(updated), readOk)

\* the lists made of some of the records of a list, in their order
SubLists(s) ==
    {SelectSeqBy(s, keep) : keep \in [DOMAIN s -> BOOLEAN]}

\* an ensureDataFile that writes the empty list whether the file exists or not
JsonEnsureDataFileMutantTruncate ==
    /\ jsonFile' = FileOf(<<>>)
    /\ last' = [op |-> "ensureDataFile"]
    /\ UNCHANGED <<db, idIndex, now, cyc, runs, announced, api, cache>>

\* ensureDataFile: fs.access fails for a missing file, and then "[]" is written
JsonEnsureDataFile ==
    /\ jsonFile' = IF jsonFile.exists THEN jsonFile ELSE FileOf(<<>>)
    /\ last' = [op |-> "ensureDataFile"]
    /\ UNCHANGED <<db, idIndex, now, cyc, runs, announced, api, cache>>

JsonSave ==
    \E arg \in JsonArgs, readOk \in BOOLEAN :
        LET r == JsonSaveKnownAppointments(jsonFile, arg, readOk)
        IN  /\ jsonFile' = r.file
            /\ last' = [op |-> "saveKnownAppointments", arg |-> arg,
                        readOk |-> readOk, ret |-> r.ret]
            /\ UNCHANGED <<db, idIndex, now, cyc, runs, announced, api, cache>>

JsonMark ==
    \E id \in Ids, readOk \in BOOLEAN, readOk2 \in BOOLEAN :
        LET r == JsonMarkAsNotified(jsonFile, id, readOk, readOk2)
        IN  /\ jsonFile' = r.file
            /\ last' = [op |-> "markAsNotified(json)", arg |-> id,
                        readOk |-> readOk /\ readOk2, ret |-> r.ret]
            /\ UNCHANGED <<db, idIndex, now, cyc, runs, announced, api, cache>>

\* the caller hands in some of the records it has loaded
JsonMarkFromList ==
    \E id \in Ids, readOk \in BOOLEAN :
        \E list \in SubLists(JsonLoadKnownAppointments(jsonFile, TRUE)) :
            LET r == JsonMarkAsNotifiedFromList(jsonFile, id, list, readOk)
            IN  /\ jsonFile' = r.file
                /\ last' = [op |-> "markAsNotified(json)", arg |-> id,
                            list |-> list, readOk |-> readOk, ret |-> r.ret]
                /\ UNCHANGED <<db, idIndex, now, cyc, runs, announced, api, cache>>

NextJson ==
    \/ JsonEnsureDataFile
    \/ JsonSave
    \/ JsonMark
    \/ JsonMarkFromList

SpecJson == Init /\ [][NextJson]_vars

\* migrateToNedb: the records of the JSON file go to saveAppointments as
\* they are
Migrate ==
    /\ idIndex' = TRUE
    /\ \E failAt \in 0..(2 * MaxBatch) :
           LET r == IF jsonFile.exists
                    THEN SaveAppointments(db, ArrayOf(jsonFile.records), failAt)
                    ELSE [db |-> db, ret |-> FALSE]
           IN  /\ failAt <= (IF jsonFile.exists THEN Len(jsonFile.records) ELSE 0)
               /\ db' = r.db
               /\ last' = [op |-> "migrateToNedb", failAt |-> failAt, pre |-> db]
    /\ UNCHANGED <<jsonFile, now, cyc, runs, announced, api, cache>>

NextMigrate ==
    \/ Tick
    \/ JsonEnsureDataFile
    \/ JsonSave
    \/ JsonMark
    \/ Migrate
    \/ ApiMark

SpecMigrate == Init /\ [][NextMigrate]_vars

(***************************************************************************)
(* Initialisation of the two stores, called any number of times on stores  *)
(* that hold records.                                                      *)
(***************************************************************************)
\* initializeAppointmentsCollection: three ensureIndex calls, whose errors
\* are logged by their callbacks; it returns true
ApiInitialize ==
    /\ idIndex' = TRUE
    /\ last' = [op |-> "initializeAppointmentsCollection", ret |-> TRUE]
    /\ UNCHANGED <<db, jsonFile, now, cyc, runs, announced, api, cache>>

NextInit ==
    \/ ApiInitialize
    \/ JsonEnsureDataFile
    \/ ApiSaveOne
    \/ JsonSave

SpecInit == Init /\ [][NextInit]_vars

(***************************************************************************)
(* The maintenance job of main.js.  main.js imports pruneOldAppointments   *)
(* from nedbAppointmentStorage.js, which neither defines nor exports a     *)
(* function of that name: where the module loads at all, the name is       *)
(* undefined and the call throws a TypeError, which the job catches and    *)
(* logs.  (Where the loader rejects the import, main.js does not run and   *)
(* no step is taken.)                                                      *)
(***************************************************************************)
RETENTION_DAYS == 90

Maintenance ==
    /\ last' = [op |-> "pruneOldAppointments", arg |-> RETENTION_DAYS,
                threw |-> TRUE, pre |-> db]
    /\ UNCHANGED <<db, idIndex, jsonFile, now, cyc, runs, announced, api, cache>>

NextMaint ==
    \/ Tick
    \/ ApiSave
    \/ Maintenance

SpecMaint == Init /\ [][NextMaint]_vars

(***************************************************************************)
(* The cached API client (modules/api/cachedApiClient.js): fetchWithRetry. *)
(* The call is suspended at "await fetch(url)" (pc = "fetch") and at the   *)
(* timer (pc = "wait").  A delay is a JavaScript number: a number of       *)
(* milliseconds or NaN.                                                    *)
(***************************************************************************)
MaxRetries == 2           \* largest maxRetries handed to fetchWithRetry directly

DEFAULT_MAX_RETRIES == 3

DEFAULT_INITIAL_DELAY == 1000

Num(n) == [nan |-> FALSE, n |-> n]

NaN == [nan |-> TRUE]

\* delay * k
Times(delay, k) == IF delay.nan THEN NaN ELSE Num(delay.n * k)

\* the values of initialDelay
InitialDelays == {DEFAULT_INITIAL_DELAY, 250}

\* response.headers.get('retry-after'): null, delay-seconds or an HTTP date
NoHeader == [present |-> FALSE]

Header(text) == [present |-> TRUE, text |-> text]

\* parseInt(text, 10) of the header texts the model sends: a string of
\* digits gives its number, a text that starts with a letter gives NaN
ParseInt(text) ==
    IF \E n \in 0..9 : text = ToString(n)
    THEN Num(CHOOSE n \in 0..9 : text = ToString(n))
    ELSE NaN

NetworkError == [kind |-> "error"]

Response(status, retryAfter) ==
    [kind |-> "response", status |-> status, retryAfter |-> retryAfter]

\* what one fetch(url) can end in
Outcomes ==
    { NetworkError,
      Response(200, NoHeader),
      Response(404, NoHeader),
      Response(429, NoHeader),
      Response(429, Header("1")),
      Response(429, Header("0")),
      Response(429, Header("Wed, 21 Oct 2026 07:28:00 GMT")),
      Response(503, NoHeader),
      Response(503, Header("1")) }

\* response.ok
IsOk(outcome) ==
    outcome.kind = "response" /\ outcome.status >= 200 /\ outcome.status <= 299

\* a loop that allows one retry more: retries <= maxRetries in both tests
FetchDecisionMutantOffByOne(outcome, retries, maxRetries, delay) ==
    IF IsOk(outcome) THEN [act |-> "return", delay |-> delay]
    ELSE IF /\ outcome.kind = "response"
            /\ (outcome.status = 429 \/ outcome.status >= 500)
            /\ retries <= maxRetries
    THEN [act |-> "wait",
          delay |-> IF outcome.retryAfter.present /\ outcome.retryAfter.text # ""
                    THEN Times(ParseInt(outcome.retryAfter.text), 1000)
                    ELSE delay]
    ELSE IF retries > maxRetries
    THEN [act |-> "throw", delay |-> delay]
    ELSE [act |-> "wait", delay |-> delay]

\* one round of the loop up to the timer: the try block and the catch
\* block.  The Error thrown for a status that is not retried is thrown
\* inside the try block, so the catch block gets it as it gets a network
\* error.
FetchDecision(outcome, retries, maxRetries, delay) ==
    IF IsOk(outcome) THEN [act |-> "return", delay |-> delay]
    ELSE IF /\ outcome.kind = "response"
            /\ (outcome.status = 429 \/ outcome.status >= 500)
            /\ retries < maxRetries
    THEN [act |-> "wait",
          delay |-> IF outcome.retryAfter.present /\ outcome.retryAfter.text # ""
                    THEN Times(ParseInt(outcome.retryAfter.text), 1000)
                    ELSE delay]
    ELSE IF retries >= maxRetries
    THEN [act |-> "throw", delay |-> delay]
    ELSE [act |-> "wait", delay |-> delay]

NoOutcome == [kind |-> "none"]

NoResult == [kind |-> "none"]

\* the locals of a fetchWithRetry call as it starts; attempts and waited
\* count the fetch calls made and the timers awaited, prevWait and lastWait
\* are the delays of the last two timers.  For a call made by fetchExamData:
\* the cache file it found (pre), whether statSync and the readFileSync of
\* the try block and of the catch block succeeded (stat, read, reread),
\* how the fetch ended and what fetchExamData resolved to.
StartFetch(op, url, maxRetries, initialDelay, pre) ==
    [pc |-> "fetch", op |-> op, url |-> url, maxRetries |-> maxRetries,
     retries |-> 0, delay |-> Num(initialDelay), attempts |-> 0, waited |-> 0,
     prevWait |-> Num(0), lastWait |-> Num(0), seen |-> NoOutcome,
     stat |-> FALSE, read |-> FALSE, reread |-> FALSE, fetch |-> "none",
     result |-> NoResult, pre |-> pre]

\* fetchWithRetry(url, maxRetries, initialDelay) called on its own
CallFetchWithRetry ==
    /\ api.pc \in {"unloaded", "returned", "threw"}
    /\ \E maxRetries \in 0..MaxRetries, initialDelay \in InitialDelays :
           api' = StartFetch("fetchWithRetry", "set", maxRetries, initialDelay, cache)
    /\ UNCHANGED <<db, idIndex, jsonFile, now, last, cyc, runs, announced, cache>>

\* await fetch(url) ends, and the round runs up to the return, the throw or
\* the timer
Attempt ==
    /\ api.pc = "fetch"
    /\ \E outcome \in Outcomes :
           LET d == FetchDecision(outcome, api.retries, api.maxRetries, api.delay)
           IN  api' = [api EXCEPT !.pc = CASE d.act = "return" -> "returned"
                                           [] d.act = "throw" -> "threw"
                                           [] OTHER -> "wait",
                                  !.delay = d.delay,
                                  !.attempts = @ + 1,
                                  !.seen = outcome]
    /\ UNCHANGED <<db, idIndex, jsonFile, now, last, cyc, runs, announced, cache>>

\* the timer of setTimeout(resolve, delay) fires; retries++; delay *= 2
Wait ==
    /\ api.pc = "wait"
    /\ api' = [api EXCEPT !.pc = "fetch",
                          !.waited = @ + 1,
                          !.prevWait = api.lastWait,
                          !.lastWait = api.delay,
                          !.retries = @ + 1,
                          !.delay = Times(api.delay, 2)]
    /\ UNCHANGED <<db, idIndex, jsonFile, now, last, cyc, runs, announced, cache>>

NextFetch ==
    \/ CallFetchWithRetry
    \/ Attempt
    \/ Wait

SpecFetch == Init /\ [][NextFetch]_vars

\* every fetch(url) ends in an outcome and every timer fires
SpecFetchFair == SpecFetch /\ WF_vars(Attempt) /\ WF_vars(Wait)

(***************************************************************************)
(* The cached API client: fetchExamData and its cache file.  The API       *)
(* answers with {data: [...]} (Payloads stand for two such arrays; an      *)
(* array, empty or not, is truthy) or with a body that is not JSON.        *)
(***************************************************************************)
Payloads == {1, 2}

Bodies == {[json |-> FALSE]} \cup {[json |-> TRUE, data |-> d] : d \in Payloads}

\* process.env.API_URL: not set, set to the empty string, set to a URL
Urls == {"unset", "empty", "set"}

\* what fetchExamData resolves to, or that it rejects
Data(d, from) == [kind |-> "data", data |-> d, from |-> from]

Null == [kind |-> "null"]

Rejects == [kind |-> "rejects"]

\* the file writeToCache has just written
CacheOf(content) == [exists |-> TRUE, expired |-> FALSE, content |-> content]

\* isCacheValid: the file exists, statSync does not throw, and
\* Date.now() - mtime < CACHE_TTL
IsCacheValid(file, statOk) == file.exists /\ statOk /\ ~file.expired

\* readFromCache: the parsed file, null when reading or parsing throws
ReadFromCache(file, readOk) ==
    IF file.exists /\ readOk THEN Data(file.content, "cache") ELSE Null

\* a catch block that falls back on the cache file only while it is valid
ExamCatchMutantValidOnly(url, file, readOk) ==
    IF url = "unset" THEN Rejects
    ELSE IF url = "set" /\ IsCacheValid(file, TRUE) THEN ReadFromCache(file, readOk)
    ELSE Null

\* the catch block of fetchExamData.  getCacheFilePath(API_URL) is called
\* again: Buffer.from(undefined) throws a TypeError, which nothing catches.
\* The path made of the empty URL is a file the client never writes.
ExamCatch(url, file, readOk) ==
    IF url = "unset" THEN Rejects
    ELSE IF url = "set" /\ file.exists THEN ReadFromCache(file, readOk)
    ELSE Null

\* the module is loaded: API_URL is read from the environment
LoadClient ==
    /\ api.pc = "unloaded"
    /\ \E url \in Urls : api' = [pc |-> "idle", url |-> url]
    /\ UNCHANGED <<db, idIndex, jsonFile, now, last, cyc, runs, announced, cache>>

\* fetchExamData up to its first await: the test of API_URL, the cache
\* look-up and the call of fetchWithRetry(API_URL)
CallFetchExamData ==
    /\ api.pc \in {"idle", "exam-done"}
    /\ \E statOk \in BOOLEAN, readOk \in BOOLEAN :
           LET start == [StartFetch("fetchExamData", api.url, DEFAULT_MAX_RETRIES,
                                    DEFAULT_INITIAL_DELAY, cache)
                            EXCEPT !.stat = cache.exists /\ statOk]
           IN  api' = IF api.url # "set"
                      THEN [start EXCEPT !.pc = "exam-done",
                                         !.reread = cache.exists /\ readOk,
                                         !.result = ExamCatch(api.url, cache, readOk)]
                      ELSE IF IsCacheValid(cache, statOk) /\ readOk
                      THEN [start EXCEPT !.pc = "exam-done",
                                         !.read = TRUE,
                                         !.result = ReadFromCache(cache, readOk)]
                      ELSE start
    /\ UNCHANGED <<db, idIndex, jsonFile, now, last, cyc, runs, announced, cache>>

\* fetchWithRetry has returned or thrown: res.json(), writeToCache (whose
\* errors are logged) and the return, or the catch block
ExamFinish ==
    /\ api.pc \in {"returned", "threw"}
    /\ api.op = "fetchExamData"
    /\ \E body \in Bodies, writeOk \in BOOLEAN, readOk \in BOOLEAN :
           IF api.pc = "returned" /\ body.json
           THEN /\ api' = [api EXCEPT !.pc = "exam-done",
                                      !.fetch = "ok",
                                      !.result = Data(body.data, "api")]
                /\ cache' = IF writeOk THEN CacheOf(body.data) ELSE cache
           ELSE /\ api' = [api EXCEPT !.pc = "exam-done",
                                      !.fetch = "failed",
                                      !.reread = cache.exists /\ readOk,
                                      !.result = ExamCatch(api.url, cache, readOk)]
                /\ cache' = cache
    /\ UNCHANGED <<db, idIndex, jsonFile, now, last, cyc, runs, announced>>

\* the clock passes mtime + CACHE_TTL
Expire ==
    /\ cache.exists
    /\ ~cache.expired
    /\ cache' = [cache EXCEPT !.expired = TRUE]
    /\ UNCHANGED <<db, idIndex, jsonFile, now, last, cyc, runs, announced, api>>

NextExam ==
    \/ LoadClient
    \/ CallFetchExamData
    \/ Attempt
    \/ Wait
    \/ ExamFinish
    \/ Expire

SpecExam == Init /\ [][NextExam]_vars

(***************************************************************************)
(* Properties of the store's operations.                                   *)
(***************************************************************************)
WithoutUid(d) == [f \in DOMAIN d \ {"_id"} |-> d[f]]

DocsOf(D, id) == {d \in D : d.id = id}

\* the k-th smallest member of a set of indices
Nth(S, k) == CHOOSE i \in S : Cardinality({j \in S : j < i}) = k - 1

\* a termin that reads dd.mm.yyyy, and the calendar order of two of them
WellFormed(r) ==
    /\ Has(r, "termin")
    /\ Len(r.termin) = 3
    /\ \E d \in 1..31, m \in 1..12, y \in 2022..2023 : r.termin = Termin(d, m, y)

Day(r) == CHOOSE d \in 1..31 : r.termin[1] = Pad2(d)

Month(r) == CHOOSE m \in 1..12 : r.termin[2] = Pad2(m)

Year(r) == CHOOSE y \in 2022..2023 : r.termin[3] = ToString(y)

\* a is on the same day as b or later: year, then month, then day
NotBefore(a, b) ==
    \/ Year(a) > Year(b)
    \/ Year(a) = Year(b) /\ Month(a) > Month(b)
    \/ Year(a) = Year(b) /\ Month(a) = Month(b) /\ Day(a) >= Day(b)

\* the ids of the records a run found new
NewIds(p) == {cyc[p].new[i].id : i \in DOMAIN cyc[p].new}

\* the positions in the call log of a run at which op was called
CallsOf(p, op) == {i \in DOMAIN cyc[p].calls : cyc[p].calls[i].op = op}

\* C1: a run of checkFischerpruefung that found a non-empty new set and met
\* no storage error has returned: every id of the new set is in the store
\* with notified = true.
C1_CyclePersistsAndMarksNotified ==
    \A p \in Procs :
        (cyc[p].pc = "done" /\ Len(cyc[p].new) > 0 /\ ~cyc[p].err)
        => \A id \in NewIds(p) :
               /\ DocsOf(db, id) # {}
               /\ \A d \in DocsOf(db, id) : d.notified = TRUE

\* C2: in a run with a non-empty new set every call of markAsNotified comes
\* after the run's sendDiscordAlert, and once the run has returned without
\* a storage error markAsNotified was called exactly once for each new id.
C2_MarkOncePerIdAfterDispatch ==
    \A p \in Procs :
        cyc[p].pc # "idle"
        => /\ \A i \in CallsOf(p, "markAsNotified") :
                  \E j \in CallsOf(p, "sendDiscordAlert") : j < i
           /\ (cyc[p].pc = "done" /\ ~cyc[p].err)
              => \A id \in NewIds(p) :
                     Cardinality({i \in CallsOf(p, "markAsNotified") :
                                     cyc[p].calls[i].id = id}) = 1

\* C3: no step of a run, alone or interleaved with another run, leaves a
\* stored record that had notified = true with notified = false.
C3_NotifiedIsMonotonic ==
    [][\A d \in db : d.notified = TRUE
          => \A e \in db' : e._id = d._id => e.notified = TRUE]_vars

\* C4: every stored record has notifiedAt if and only if its notified is
\* true, whatever saveAppointments, markAsNotified and migrateToNedb did.
C4_NotifiedAtIffNotified ==
    \A d \in db : Has(d, "notifiedAt") <=> (Has(d, "notified") /\ d.notified = TRUE)

\* C5: no two stored records have the same id, whatever saveAppointments
\* was called with: batches that hold an id twice, and the interleaved
\* writes of two calls under way at once.
C5_IdIsUnique ==
    \A d, e \in db : d.id = e.id => d = e

\* a call is between the two writes of a batch that holds an id twice, and
\* the store holds for that id what the other call wrote meanwhile
C5_Witness ==
    \E p, q \in Procs :
        /\ cyc[p].pc = "save"
        /\ cyc[p].k = 2
        /\ cyc[p].new[1].id = cyc[p].new[2].id
        /\ cyc[q].pc = "done"
        /\ ~cyc[q].err
        /\ Len(cyc[q].new) = 1
        /\ cyc[q].new[1] # cyc[p].new[1]
        /\ \E d \in DocsOf(db, cyc[p].new[1].id) : WithoutUid(d) = cyc[q].new[1]

\* C6: saveAppointments([r]) is an idempotent full-record upsert: after it
\* the store holds exactly one record with r's id, its fields are exactly
\* those of r (nothing of an overwritten record survives but its _id),
\* every other record is as before, and saving [r] once more changes nothing.
C6_SaveIsIdempotentFullUpsert ==
    (/\ last.op = "saveAppointments"
     /\ last.arg.isArray
     /\ Len(last.arg.items) = 1
     /\ last.failAt = 0)
    => LET r == last.arg.items[1]
       IN  /\ last.ret = TRUE
           /\ Cardinality(DocsOf(db, r.id)) = 1
           /\ \A e \in DocsOf(db, r.id) : WithoutUid(e) = r
           /\ \A d \in DocsOf(last.pre, r.id), e \in DocsOf(db, r.id) :
                  e._id = d._id
           /\ {d \in last.pre : d.id # r.id} = {e \in db : e.id # r.id}
           /\ SaveAppointments(db, last.arg, 0).db = db

\* a record was overwritten by one that lacks a field the old one had
C6_Witness ==
    /\ last.op = "saveAppointments"
    /\ last.arg.isArray
    /\ Len(last.arg.items) = 1
    /\ last.failAt = 0
    /\ \E d \in DocsOf(last.pre, last.arg.items[1].id) :
           /\ ~((DOMAIN d \ {"_id"}) \subseteq DOMAIN last.arg.items[1])
           /\ Has(d, "notifiedAt")

\* C7: findNewAppointments returns exactly the candidates whose id no
\* stored record has, whatever their other fields, in the order of the
\* fetched list, each a copy of the candidate with notified = false (and
\* dateAdded = now) stamped on it.
C7_FindNewIsIdDifference ==
    (last.op = "findNewAppointments" /\ last.arg.isArray)
    => LET fetched == last.arg.items
           fresh == {i \in DOMAIN fetched : \A d \in db : d.id # fetched[i].id}
       IN  /\ Len(last.ret) = Cardinality(fresh)
           /\ \A k \in DOMAIN last.ret :
                  LET c == fetched[Nth(fresh, k)]
                      n == last.ret[k]
                  IN  /\ DOMAIN n = DOMAIN c \cup {"notified", "dateAdded"}
                      /\ n.notified = FALSE
                      /\ n.dateAdded = now
                      /\ \A f \in DOMAIN c \ {"notified", "dateAdded"} :
                             n[f] = c[f]

\* a known id with other field values is left out, a new one that carried
\* notified = true is returned, after another new one
C7_Witness ==
    /\ last.op = "findNewAppointments"
    /\ last.arg.isArray
    /\ Len(last.arg.items) = 2
    /\ Len(last.ret) = 1
    /\ \E i \in DOMAIN last.arg.items, d \in db :
           /\ d.id = last.arg.items[i].id
           /\ d.termin # last.arg.items[i].termin
    /\ \E i \in DOMAIN last.arg.items :
           /\ Has(last.arg.items[i], "notified")
           /\ last.arg.items[i].notified = TRUE
           /\ last.ret[1].id = last.arg.items[i].id

\* C8: markAsNotified(id), its write accepted by the storage: with a record
\* of that id it returns true, the record has notified = true afterwards
\* and every other record is unchanged; with no such record it returns
\* false and the store is unchanged.
C8_MarkAsNotified ==
    (last.op = "markAsNotified" /\ last.ok)
    => IF DocsOf(last.pre, last.arg) # {}
       THEN /\ last.ret = TRUE
            /\ DocsOf(db, last.arg) # {}
            /\ \A e \in DocsOf(db, last.arg) : e.notified = TRUE
            /\ {d \in last.pre : d.id # last.arg} = {e \in db : e.id # last.arg}
            /\ Cardinality(db) = Cardinality(last.pre)
       ELSE /\ last.ret = FALSE
            /\ db = last.pre

\* a call for an id that is not stored, on a store that holds a record an
\* earlier call marked
C8_Witness ==
    /\ last.op = "markAsNotified"
    /\ last.ok
    /\ last.ret = FALSE
    /\ \E d \in db : d.notified = TRUE /\ Has(d, "notifiedAt")
    /\ \E d \in db : d.notified = FALSE

\* what the claims on getMostRecentAppointments say of a result: it has
\* min(limit, stored) records of the store, none twice, the well-formed
\* ones in descending calendar order and before every other one, and no
\* record left out is later than one returned or well-formed where a
\* malformed one was returned
RecentResultOk(ret, limit, D) ==
    /\ Len(ret) = Min(limit, Cardinality(D))
    /\ \A i \in DOMAIN ret : ret[i] \in D
    /\ \A i, j \in DOMAIN ret : i < j => ret[i] # ret[j]
    /\ \A i, j \in DOMAIN ret : i < j =>
           /\ WellFormed(ret[j]) => WellFormed(ret[i])
           /\ WellFormed(ret[i]) /\ WellFormed(ret[j]) => NotBefore(ret[i], ret[j])
    /\ \A d \in D \ Range(ret) : \A i \in DOMAIN ret :
           /\ WellFormed(d) => WellFormed(ret[i])
           /\ WellFormed(d) /\ WellFormed(ret[i]) => NotBefore(ret[i], d)

\* C9: on a store whose termin values are all well-formed,
\* getMostRecentAppointments(limit) returns min(limit, stored) records, the
\* ones with the latest exam dates, in descending calendar order.
C9_MostRecentByCalendarDate ==
    (last.op = "getMostRecentAppointments" /\ \A d \in db : WellFormed(d))
    => RecentResultOk(last.ret, last.arg, db)

\* the two latest of three records, the earliest of which the store lists
\* first
C9_Witness ==
    /\ last.op = "getMostRecentAppointments"
    /\ last.arg = 2
    /\ Cardinality(db) = 3
    /\ \A d \in db : WellFormed(d)
    /\ Len(last.ret) = 2
    /\ last.ret[1].termin = Termin(15, 6, 2023)
    /\ last.ret[2].termin = Termin(1, 1, 2023)
    /\ FindAll(db)[1].termin = Termin(3, 3, 2022)

\* C10: with a malformed or missing termin in the store,
\* getMostRecentAppointments still returns the well-formed records in
\* descending date order and every malformed one after them.
C10_MalformedTerminSortsLast ==
    last.op = "getMostRecentAppointments"
    => RecentResultOk(last.ret, last.arg, db)

\* an argument that is no array (null included) or an empty array
EmptyOrInvalid(arg) == ~arg.isArray \/ Len(arg.items) = 0

\* C11: findNewAppointments of an empty or invalid argument returns the
\* empty list, saveAppointments of one returns false, and either call
\* leaves the store as it was.
C11_EmptyOrInvalidInputIsSafe ==
    [][/\ (last'.op = "saveAppointments" /\ EmptyOrInvalid(last'.arg))
          => (last'.ret = FALSE /\ db' = db)
       /\ (last'.op = "findNewAppointments" /\ EmptyOrInvalid(last'.arg))
          => (last'.ret = <<>> /\ db' = db)]_vars

\* saveAppointments([]) has returned false on a store that holds records
C11_Witness ==
    /\ last.op = "saveAppointments"
    /\ last.arg = ArrayOf(<<>>)
    /\ last.ret = FALSE
    /\ db # {}
    /\ db = last.pre

\* C12: when the write of one record of a batch is rejected, every other
\* record of the batch is in the store once saveAppointments has returned.
C12_FailedWriteDoesNotAbortBatch ==
    (/\ last.op = "saveAppointments"
     /\ last.arg.isArray
     /\ last.failAt > 0)
    => \A j \in DOMAIN last.arg.items :
           j # last.failAt => DocsOf(db, last.arg.items[j].id) # {}

\* the ids markAsNotified was called with by a run, in the order of the calls
MarkedIds(p) ==
    LET marks == SelectSeqBy(cyc[p].calls,
                     [i \in DOMAIN cyc[p].calls |->
                         cyc[p].calls[i].op = "markAsNotified"])
    IN  [i \in DOMAIN marks |-> marks[i].id]

\* the ids of the records a run found new, in their order
NewIdSeq(p) == [i \in DOMAIN cyc[p].new |-> cyc[p].new[i].id]

\* C13: a markAsNotified call that fails does not end the loop or the run:
\* when the loop is left markAsNotified has been called for every new id,
\* and the run goes on to sendDiscordAlert and to saveAppointments.
C13_FailedMarkDoesNotAbort ==
    \A p \in Procs :
        /\ cyc[p].pc = "mark"
           => MarkedIds(p) = SubSeq(NewIdSeq(p), 1, cyc[p].k - 1)
        /\ (cyc[p].pc \in {"send", "save", "done"} /\ Len(cyc[p].new) > 0)
           => MarkedIds(p) = NewIdSeq(p)
        /\ (cyc[p].pc \in {"save", "done"} /\ Len(cyc[p].new) > 0)
           => CallsOf(p, "sendDiscordAlert") # {}
        /\ (cyc[p].pc = "done" /\ Len(cyc[p].new) > 0)
           => CallsOf(p, "saveAppointments") # {}

\* a run that found two ids new on an empty store (no mark could match)
\* and met a storage error in the loop has saved both records
C13_Witness ==
    /\ cyc[1].pc = "done"
    /\ Len(cyc[1].new) = 2
    /\ cyc[1].new[1].id # cyc[1].new[2].id
    /\ cyc[1].err
    /\ last.pre = {}
    /\ \A id \in NewIds(1) : DocsOf(db, id) # {}

\* C14: a run whose fetchExamData yields no data returns with the store as
\* it was when the run began and has called none of findNewAppointments,
\* markAsNotified, saveAppointments, sendDiscordAlert.
C14_NoDataEndsCycleUntouched ==
    \A p \in Procs :
        cyc[p].pc = "nodata" => (cyc[p].calls = <<>> /\ db = last.pre)

\* a run without data on a store that holds a record of an earlier run
C14_Witness ==
    /\ cyc[1].pc = "nodata"
    /\ db # {}
    /\ runs = 2

\* the records a JSON file holds (none when there is no file)
RecordsOf(file) == IF file.exists THEN file.records ELSE <<>>

IdsOf(records) == {records[i].id : i \in DOMAIN records}

\* C15: saveKnownAppointments(batch) leaves in the file exactly one record
\* for every id of the file or of the batch, and every record of the file
\* whose id is not in the batch as it was.
C15_JsonSaveIsUnionById ==
    [][(last'.op = "saveKnownAppointments" /\ last'.arg.isArray)
       => LET pre == RecordsOf(jsonFile)
              post == RecordsOf(jsonFile')
              batch == last'.arg.items
          IN  /\ IdsOf(post) = IdsOf(pre) \cup IdsOf(batch)
              /\ \A i, j \in DOMAIN post : post[i].id = post[j].id => i = j
              /\ \A i \in DOMAIN pre :
                     pre[i].id \notin IdsOf(batch) => pre[i] \in Range(post)]_vars

\* C16: when the load inside saveKnownAppointments or markAsNotified fails
\* on a file that holds records, the write that follows leaves a record in
\* the file for every id the file held.
C16_FailedLoadIsNotDestructive ==
    [][(/\ last'.op \in {"saveKnownAppointments", "markAsNotified(json)"}
        /\ ~last'.readOk)
       => IdsOf(RecordsOf(jsonFile)) \subseteq IdsOf(RecordsOf(jsonFile'))]_vars

\* C17: markAsNotified(id, list) for a stored id leaves the record of that
\* id with notified = true, the number of stored records as it was, and
\* every other stored record as it was.
C17_JsonMarkFrame ==
    [][(/\ last'.op = "markAsNotified(json)"
        /\ last'.arg \in IdsOf(RecordsOf(jsonFile))
        /\ Has(last', "list") => last'.arg \in IdsOf(last'.list))
       => LET pre == RecordsOf(jsonFile)
              post == RecordsOf(jsonFile')
          IN  /\ \A i \in DOMAIN post :
                     post[i].id = last'.arg => post[i].notified = TRUE
              /\ last'.arg \in IdsOf(post)
              /\ Len(post) = Len(pre)
              /\ \A i \in DOMAIN pre :
                     pre[i].id # last'.arg => pre[i] \in Range(post)]_vars

\* C18: the read operations leave the store alone: a run that found no new
\* appointment has, from findNewAppointments to its return, the store it
\* began with.
C18_ReadsLeaveStoreUnchanged ==
    \A p \in Procs :
        (/\ cyc[p].pc \in {"recent", "send", "done"}
         /\ Len(cyc[p].new) = 0
         /\ CallsOf(p, "findNewAppointments") # {})
        => db = last.pre

\* a run without new appointments has shown the two most recent records
\* of the store and returned
C18_Witness ==
    /\ cyc[1].pc = "done"
    /\ Len(cyc[1].new) = 0
    /\ \E i \in CallsOf(1, "getMostRecentAppointments") : cyc[1].calls[i].n = 2
    /\ CallsOf(1, "sendDiscordAlert") # {}
    /\ Cardinality(db) = 2

\* a stored record without its notification fields
Frame(d) == [f \in DOMAIN d \ {"notified", "notifiedAt"} |-> d[f]]

\* C19: every record the store held when a run began is still stored when
\* the run has returned, with every field but notified and notifiedAt as
\* it was.
C19_CycleKeepsStoredRecords ==
    \A p \in Procs :
        (/\ cyc[p].pc \in {"done", "nodata"}
         /\ last.op = "checkFischerpruefung"
         /\ last.p = p)
        => \A d \in last.pre :
               \E e \in db : e._id = d._id /\ Frame(e) = Frame(d)

\* the call the catch block makes
ErrorAlert == [op |-> "sendDiscordAlert", ids |-> <<>>, error |-> TRUE]

\* C20: an exception raised in the body of a run is caught: the run has
\* sent nothing so far, sends exactly one error notification, changes no
\* record and returns.
C20_ExceptionIsCaughtAndReported ==
    [][\A p \in Procs :
          cyc[p].pc = "error"
          => /\ CallsOf(p, "sendDiscordAlert") = {}
             /\ cyc'[p] # cyc[p]
                => /\ cyc'[p].pc = "done"
                   /\ cyc'[p].calls = Append(cyc[p].calls, ErrorAlert)
                   /\ db' = db]_vars

\* a run that met an item without examType has reported it and returned,
\* on a store an earlier run filled
C20_Witness ==
    /\ cyc[1].pc = "done"
    /\ cyc[1].calls = <<ErrorAlert>>
    /\ db # {}

\* C21: initializeAppointmentsCollection and ensureDataFile are idempotent
\* and non-destructive: neither changes a stored record of either store,
\* ensureDataFile writes the empty list only when the file does not exist,
\* and a second call in a row changes nothing at all.
C21_InitIsIdempotentAndNonDestructive ==
    [][/\ last'.op = "initializeAppointmentsCollection" =>
               /\ db' = db
               /\ jsonFile' = jsonFile
               /\ last.op = "initializeAppointmentsCollection" => idIndex' = idIndex
       /\ last'.op = "ensureDataFile" =>
               /\ db' = db
               /\ jsonFile'.exists
               /\ RecordsOf(jsonFile') = RecordsOf(jsonFile)
               /\ jsonFile.exists => jsonFile' = jsonFile
               /\ last.op = "ensureDataFile" => jsonFile' = jsonFile]_vars

\* ensureDataFile has just run on a file that holds records; the collection
\* holds records and has its indexes
C21_Witness ==
    /\ last.op = "ensureDataFile"
    /\ idIndex
    /\ db # {}
    /\ jsonFile.exists
    /\ Len(jsonFile.records) = MaxBatch

\* C22: getNotifiedAppointments returns exactly the stored records whose
\* notified is true, each once.
C22_GetNotifiedIsTheNotifiedRecords ==
    last.op = "getNotifiedAppointments" =>
        /\ Range(last.ret) = {d \in db : Has(d, "notified") /\ d.notified = TRUE}
        /\ \A i, j \in DOMAIN last.ret : last.ret[i] = last.ret[j] => i = j

\* the call on a store that holds a notified and an unnotified record
C22_Witness ==
    /\ last.op = "getNotifiedAppointments"
    /\ Len(last.ret) > 0
    /\ \E d \in db : Has(d, "notified") /\ d.notified = FALSE

\* the days one tick of the model's clock stands for: the weekly job finds
\* records of the tick before older than the retention window
TickDays == RETENTION_DAYS + 10

\* the records of D whose dateAdded is more than days days before t
OlderThan(D, days, t) ==
    {d \in D : Has(d, "dateAdded") /\ (t - d.dateAdded) * TickDays > days}

\* C23: pruneOldAppointments(days) deletes exactly the stored records whose
\* dateAdded is more than days days old, leaves the other records as they
\* are and, when it returns, returns the number of records it removed.
C23_PruneDeletesOldRecords ==
    [][last'.op = "pruneOldAppointments" =>
           /\ db' = db \ OlderThan(db, last'.arg, now)
           /\ ~last'.threw => last'.ret = Cardinality(OlderThan(db, last'.arg, now))]_vars

\* the ids a run's new-appointment notifications held
AnnouncedBy(p) ==
    UNION {Range(cyc[p].calls[i].ids) : i \in CallsOf(p, "sendDiscordAlert")}

\* C24: two overlapping runs can both announce the same id as new.  A run
\* judges the fetched ids by the store as it is at its findNewAppointments
\* call and by nothing else: its new set holds every fetched id that is
\* not stored then, whatever another run under way has found or sent.
C24_NewSetIgnoresOtherRun ==
    [][\A p \in Procs :
           cyc[p].pc = "find" /\ cyc'[p].pc # "find" =>
               {cyc'[p].new[i].id : i \in DOMAIN cyc'[p].new}
                   = {cyc[p].fetched[i].id : i \in DOMAIN cyc[p].fetched}
                         \ {d.id : d \in db}]_vars

\* both runs have sent a new-appointment notification that holds the same
\* id and have returned, and no store call of either run failed
C24_Witness ==
    /\ \A p \in Procs : cyc[p].pc = "done" /\ ~cyc[p].err
    /\ \E i \in Ids : i \in AnnouncedBy(1) /\ i \in AnnouncedBy(2)

\* C25: in runs that do not overlap and whose saveAppointments calls all
\* succeed, an id is in the new-appointment notification of at most one
\* run: no id a run announces was announced by a notification sent before
\* (announced holds the ids of every notification sent, whether or not the
\* webhook took it).
C25_AnnouncedAtMostOnce ==
    [][\A p \in Procs :
           cyc[p].pc = "send" /\ cyc'[p].pc # "send" =>
               NewIds(p) \cap announced = {}]_vars

\* the second run has returned: it fetched two appointments, one of them
\* announced by the first run, and announced the other one only
C25_Witness ==
    /\ runs = 2
    /\ cyc[1].pc = "done"
    /\ \E i \in CallsOf(1, "findNewAppointments") : cyc[1].calls[i].n = 2
    /\ Len(cyc[1].new) = 1
    /\ Cardinality(announced) = 2
    /\ announced = {d.id : d \in db}

\* a fetchWithRetry call is under way or has ended
InFetch == api.pc \in {"fetch", "wait", "returned", "threw"}

\* C26: fetchWithRetry always terminates: whatever the fetch calls end in,
\* it makes at most maxRetries + 1 of them, a call under way comes to
\* return or to throw, and what it returns is an ok response.
C26_FetchWithRetryTerminates ==
    /\ [](InFetch =>
              /\ api.attempts <= api.maxRetries + 1
              /\ api.waited <= api.maxRetries
              /\ api.pc = "returned" => IsOk(api.seen))
    /\ (api.pc \in {"fetch", "wait"}) ~> (api.pc \in {"returned", "threw"})

\* the call has thrown after all its retries, the last one a retried status
C26_Witness ==
    /\ api.pc = "threw"
    /\ api.maxRetries = MaxRetries
    /\ api.attempts = api.maxRetries + 1
    /\ api.seen.kind = "response"
    /\ api.seen.status = 503

\* the status of the response is one the comment of the code names for a retry
Retryable(outcome) ==
    outcome.kind = "error" \/ outcome.status = 429 \/ outcome.status >= 500

\* C27: fetchWithRetry retries only on network errors and on responses
\* with status 429 or >= 500: a response with another non-ok status makes
\* the call throw at once, with no wait and no further fetch.
C27_ThrowsAtOnceOnOtherStatus ==
    [][api.pc = "fetch" /\ api' # api /\ ~IsOk(api'.seen) /\ ~Retryable(api'.seen)
           => api'.pc = "threw"]_vars

\* a > b for two delays; no comparison with NaN holds
Greater(a, b) == ~a.nan /\ ~b.nan /\ a.n > b.n

\* C28: within one fetchWithRetry call the wait before a retry is strictly
\* greater than the wait before the retry before it.
C28_WaitsGrow ==
    InFetch /\ api.waited >= 2 => Greater(api.lastWait, api.prevWait)

\* C29: the cached fetchExamData never throws: it resolves to the API
\* data, to cached data or to null.
C29_FetchExamDataNeverThrows ==
    api.pc = "exam-done" => api.result.kind \in {"data", "null"}

====
